---- MODULE Spec2Model ----
(***************************************************************************)
(* Model of agent-tools/architecture-overview.py: the regex extraction of  *)
(* a structural record from source text (analyze_typescript_file,          *)
(* analyze_python_file), the per-file serialisation and the directory      *)
(* traversal of generate_compact_index, and main's count/header/index      *)
(* sequence.                                                               *)
(*                                                                         *)
(* Source text is modelled as a sequence of lexical items ("tokens"): each *)
(* token is one piece of text that the source's regular expressions either *)
(* match as a whole or not at all, with its width in characters.  A match  *)
(* of re.finditer is the index of the token it matches; finditer yields    *)
(* matches in increasing position.  Every extracted entry carries "at",    *)
(* the index of the token it was matched at (the match position).          *)
(***************************************************************************)
EXTENDS Integers, Sequences, FiniteSets, TLC

VARIABLES
    kind,       \* extraction: "ts" (kind A) or "py" (kind B)
    content,    \* extraction: the decoded source text, a sequence of tokens
    probe,      \* extraction: what check_has_tests answers for the file
    analysis,   \* extraction: the FileAnalysis returned (empty before the call)
    xpc,        \* extraction: "input" | "done"
    rec,        \* serialisation: the FileAnalysis handed to the writer
    lines,      \* serialisation: the lines written for the file
    epc,        \* serialisation: "input" | "done"
    fentry,     \* single file: the directory entry being processed
    fout,       \* single file: lines written for it
    fpc,        \* single file: "input" | "done" | "raised"
    tree,       \* main: the project tree, a sequence of nodes below the root
    pc,         \* main: "build" | "counted" | "opened" | "done"
    total_files,\* main: count_items' file total
    total_dirs, \* main: count_items' directory total
    out,        \* main: lines written by generate_compact_index
    raised      \* main: the exception that left generate_compact_index, or "none"

vars == <<kind, content, probe, analysis, xpc, rec, lines, epc, fentry, fout, fpc,
          tree, pc, total_files, total_dirs, out, raised>>

extractVars == <<kind, content, probe, analysis, xpc>>
emitVars == <<rec, lines, epc>>
fileVars == <<fentry, fout, fpc>>
mainVars == <<tree, pc, total_files, total_dirs, out, raised>>

----------------------------------------------------------------------------
(* Generic helpers *)

Min(a, b) == IF a < b THEN a ELSE b

Indices(s) == [i \in 1..Len(s) |-> i]

Take(s, n) == SubSeq(s, 1, Min(n, Len(s)))

RECURSIVE Flatten(_)
Flatten(ss) == IF ss = <<>> THEN <<>> ELSE Head(ss) \o Flatten(Tail(ss))

----------------------------------------------------------------------------
(* Program constants *)

WindowSize == 2000
ImportCap == 5
ExportCap == 10
MethodCap == 10
FuncCap == 15

----------------------------------------------------------------------------
(* Source text as tokens *)

Tok(t, name, exp, async, nested, w) ==
    [t |-> t, name |-> name, exp |-> exp, async |-> async, nested |-> nested, w |-> w]

RECURSIVE Start(_, _)
\* character offset at which token k of text begins
Start(text, k) == IF k = 1 THEN 0 ELSE Start(text, k - 1) + text[k - 1].w

\* character offset just after token k (match.end())
End(text, k) == Start(text, k) + text[k].w

\* re.finditer over the whole text visits the tokens in text order
AllTokens(text) == Indices(text)

\* (mutant of class_section) the section stops at the next class header
class_section_to_next_class(text, c) ==
    SelectSeq(Indices(text),
              LAMBDA k : /\ Start(text, k) >= End(text, c)
                         /\ End(text, k) <= End(text, c) + WindowSize
                         /\ \A d \in (c + 1)..k : text[d].t # "class")

\* content[class_pos:class_pos+2000] with class_pos = match.end() of the class
\* match at token c: the tokens lying wholly inside the slice, in text order (a
\* declaration cut by the end of the slice lacks its closing '{' or ':' and
\* cannot match)
class_section(text, c) ==
    SelectSeq(Indices(text),
              LAMBDA k : /\ Start(text, k) >= End(text, c)
                         /\ End(text, k) <= End(text, c) + WindowSize)

FileAnalysis(imports, exports, classes, functions, types, has_tests) ==
    [imports |-> imports, exports |-> exports, classes |-> classes,
     functions |-> functions, types |-> types, has_tests |-> has_tests]

FunctionInfo(name, is_async, is_exported, at) ==
    [name |-> name, is_async |-> is_async, is_exported |-> is_exported, at |-> at]

ClassInfo(name, methods, is_exported, at) ==
    [name |-> name, methods |-> methods, is_exported |-> is_exported, at |-> at]

TypeInfo(name, k, is_exported, at) ==
    [name |-> name, kind |-> k, is_exported |-> is_exported, at |-> at]

----------------------------------------------------------------------------
(* analyze_typescript_file: which token each pattern matches *)

\* import ... from './x' (relative path only)
ts_import_pattern(tok) == tok.t = "import"

\* export (const|let|var|function|class|interface|type|enum) Name
export_pattern(tok) ==
    /\ tok.exp
    /\ tok.t \in {"const", "function", "arrow", "class", "interface", "type", "enum"}

\* export default Name
default_export_pattern(tok) == tok.t = "default"

interface_pattern(tok) == tok.t = "interface"

type_pattern(tok) == tok.t = "type"

enum_pattern(tok) == tok.t = "enum"

ts_class_pattern(tok) == tok.t = "class"

\* [visibility] [async] name(params) [: ret] {   -- a method, and equally the
\* "name(params) {" tail of a function declaration
ts_method_pattern(tok) == tok.t \in {"method", "function"}

\* [export] [async] function name(params) [: ret] {
func_decl_pattern(tok) == tok.t = "function"

\* [export] const name = [async] (params) [: ret] =>
func_arrow_pattern(tok) == tok.t = "arrow"

ts_imports(text) ==
    LET ms == SelectSeq(AllTokens(text), LAMBDA k : ts_import_pattern(text[k]))
    IN [i \in 1..Len(ms) |-> [name |-> text[ms[i]].name, at |-> ms[i]]]

\* named exports first (one pass), then default exports (a second pass)
ts_exports(text) ==
    LET named == SelectSeq(AllTokens(text), LAMBDA k : export_pattern(text[k]))
        dflt == SelectSeq(AllTokens(text), LAMBDA k : default_export_pattern(text[k]))
    IN [i \in 1..Len(named) |->
            [name |-> text[named[i]].name, default |-> FALSE, at |-> named[i]]]
       \o
       [i \in 1..Len(dflt) |->
            [name |-> text[dflt[i]].name, default |-> TRUE, at |-> dflt[i]]]

\* (mutant of ts_types) one pass over the text for the three keywords
ts_types_single_pass(text) ==
    LET ms == SelectSeq(AllTokens(text),
                        LAMBDA k : \/ interface_pattern(text[k])
                                   \/ type_pattern(text[k])
                                   \/ enum_pattern(text[k]))
    IN [i \in 1..Len(ms) |-> TypeInfo(text[ms[i]].name, text[ms[i]].t, text[ms[i]].exp, ms[i])]

\* three passes: interfaces, then type aliases, then enums
ts_types(text) ==
    LET is == SelectSeq(AllTokens(text), LAMBDA k : interface_pattern(text[k]))
        ts == SelectSeq(AllTokens(text), LAMBDA k : type_pattern(text[k]))
        es == SelectSeq(AllTokens(text), LAMBDA k : enum_pattern(text[k]))
    IN [i \in 1..Len(is) |-> TypeInfo(text[is[i]].name, "interface", text[is[i]].exp, is[i])]
       \o
       [i \in 1..Len(ts) |-> TypeInfo(text[ts[i]].name, "type", text[ts[i]].exp, ts[i])]
       \o
       [i \in 1..Len(es) |-> TypeInfo(text[es[i]].name, "enum", text[es[i]].exp, es[i])]

\* (mutant of ts_methods) only the first MethodCap matches are kept
ts_methods_capped(text, c) ==
    LET ms == SelectSeq(class_section(text, c),
                        LAMBDA k : /\ ts_method_pattern(text[k])
                                   /\ text[k].name \notin {"constructor", text[c].name})
    IN [i \in 1..Min(Len(ms), MethodCap) |->
            FunctionInfo(text[ms[i]].name, text[ms[i]].async, FALSE, ms[i])]

\* the methods of the class matched at token c: every method match of the
\* class section except the constructor, all of them kept
ts_methods(text, c) ==
    LET ms == SelectSeq(class_section(text, c),
                        LAMBDA k : /\ ts_method_pattern(text[k])
                                   /\ text[k].name \notin {"constructor", text[c].name})
    IN [i \in 1..Len(ms) |-> FunctionInfo(text[ms[i]].name, text[ms[i]].async, FALSE, ms[i])]

ts_classes(text) ==
    LET cs == SelectSeq(AllTokens(text), LAMBDA k : ts_class_pattern(text[k]))
    IN [i \in 1..Len(cs) |->
            ClassInfo(text[cs[i]].name, ts_methods(text, cs[i]), text[cs[i]].exp, cs[i])]

\* for pattern in func_patterns: function declarations, then arrow bindings.
\* Both patterns have five groups, so len(groups) == 5 holds for an arrow
\* binding too and its groups (export, name, async, params, ret) are read as
\* (export, async, name, params, ret): func_name is the async group ("async "
\* or None) and is_async is "name is not None", which is always true.
ts_functions(text) ==
    LET ds == SelectSeq(AllTokens(text), LAMBDA k : func_decl_pattern(text[k]))
        as == SelectSeq(AllTokens(text), LAMBDA k : func_arrow_pattern(text[k]))
    IN [i \in 1..Len(ds) |->
            FunctionInfo(text[ds[i]].name, text[ds[i]].async, text[ds[i]].exp, ds[i])]
       \o
       [i \in 1..Len(as) |->
            FunctionInfo(IF text[as[i]].async THEN "async " ELSE "None",
                         TRUE, text[as[i]].exp, as[i])]

analyze_typescript_file(text, tests) ==
    FileAnalysis(ts_imports(text), ts_exports(text), ts_classes(text),
                 ts_functions(text), ts_types(text), tests)

----------------------------------------------------------------------------
(* analyze_python_file *)

\* from .mod import ...
py_import_pattern(tok) == tok.t = "import"

py_class_pattern(tok) == tok.t = "class"

\* [async] def name(params) [-> ret]:
def_pattern(tok) == tok.t = "def"

\* the names of the model that start with "__"
DunderNames == {"__init__", "__str__"}

\* method_name.startswith('__') and method_name != '__init__'
IsDunderSkipped(name) == name \in DunderNames /\ name # "__init__"

py_imports(text) ==
    LET ms == SelectSeq(AllTokens(text), LAMBDA k : py_import_pattern(text[k]))
    IN [i \in 1..Len(ms) |-> [name |-> text[ms[i]].name, at |-> ms[i]]]

py_methods(text, c) ==
    LET ms == SelectSeq(class_section(text, c),
                        LAMBDA k : /\ def_pattern(text[k])
                                   /\ ~IsDunderSkipped(text[k].name))
    IN [i \in 1..Len(ms) |-> FunctionInfo(text[ms[i]].name, text[ms[i]].async, FALSE, ms[i])]

py_classes(text) ==
    LET cs == SelectSeq(AllTokens(text), LAMBDA k : py_class_pattern(text[k]))
    IN [i \in 1..Len(cs) |->
            ClassInfo(text[cs[i]].name, py_methods(text, cs[i]), FALSE, cs[i])]

\* [m.name for c in analysis.classes for m in c.methods]
captured_method_names(classes) ==
    UNION {{classes[i].methods[j].name : j \in 1..Len(classes[i].methods)} :
           i \in 1..Len(classes)}

\* (mutant of py_functions) a def is dropped only when it is itself one of the
\* captured methods
py_functions_by_position(text, classes) ==
    LET captured == UNION {{classes[i].methods[j].at : j \in 1..Len(classes[i].methods)} :
                           i \in 1..Len(classes)}
        ms == SelectSeq(AllTokens(text),
                        LAMBDA k : def_pattern(text[k]) /\ k \notin captured)
    IN [i \in 1..Len(ms) |-> FunctionInfo(text[ms[i]].name, text[ms[i]].async, FALSE, ms[i])]

\* if func_name in [m.name for c in analysis.classes for m in c.methods]: continue
py_functions(text, classes) ==
    LET ms == SelectSeq(AllTokens(text),
                        LAMBDA k : /\ def_pattern(text[k])
                                   /\ text[k].name \notin captured_method_names(classes))
    IN [i \in 1..Len(ms) |-> FunctionInfo(text[ms[i]].name, text[ms[i]].async, FALSE, ms[i])]

analyze_python_file(text, tests) ==
    LET classes == py_classes(text)
    IN FileAnalysis(py_imports(text), <<>>, classes,
                    py_functions(text, classes), <<>>, tests)

EmptyAnalysis == FileAnalysis(<<>>, <<>>, <<>>, <<>>, <<>>, FALSE)

----------------------------------------------------------------------------
(* Extraction: inputs and actions *)

MaxTokens == 3
MaxOver == 1
DeclWidth == 10

\* filler text after which a following declaration ends exactly at the end of a
\* class section opened just before the filler
FillNear == Tok("filler", "", FALSE, FALSE, FALSE, WindowSize - DeclWidth)

\* one character more: the following declaration is cut by the section's end
FillFar == Tok("filler", "", FALSE, FALSE, FALSE, WindowSize - DeclWidth + 1)

TsAlphabet ==
    { Tok("import", "./a", FALSE, FALSE, FALSE, DeclWidth),
      Tok("const", "X", TRUE, FALSE, FALSE, DeclWidth),
      Tok("default", "X", FALSE, FALSE, FALSE, DeclWidth),
      Tok("interface", "I", TRUE, FALSE, FALSE, DeclWidth),
      Tok("type", "T", FALSE, FALSE, FALSE, DeclWidth),
      Tok("enum", "E", TRUE, FALSE, FALSE, DeclWidth),
      Tok("class", "C", TRUE, FALSE, FALSE, DeclWidth),
      Tok("class", "D", FALSE, FALSE, FALSE, DeclWidth),
      Tok("method", "f", FALSE, FALSE, TRUE, DeclWidth),
      Tok("method", "constructor", FALSE, FALSE, TRUE, DeclWidth),
      Tok("function", "f", TRUE, FALSE, FALSE, DeclWidth),
      Tok("arrow", "g", FALSE, FALSE, FALSE, DeclWidth),
      FillNear, FillFar }

PyAlphabet ==
    { Tok("import", ".m", FALSE, FALSE, FALSE, DeclWidth),
      Tok("class", "C", FALSE, FALSE, FALSE, DeclWidth),
      Tok("class", "D", FALSE, FALSE, FALSE, DeclWidth),
      Tok("def", "f", FALSE, FALSE, TRUE, DeclWidth),
      Tok("def", "f", FALSE, FALSE, FALSE, DeclWidth),
      Tok("def", "g", FALSE, TRUE, TRUE, DeclWidth),
      Tok("def", "__init__", FALSE, FALSE, TRUE, DeclWidth),
      Tok("def", "__str__", FALSE, FALSE, TRUE, DeclWidth),
      FillNear, FillFar }

\* a declaration nested in a class body follows some class header
WellFormed(text) ==
    \A k \in 1..Len(text) :
        text[k].nested => \E c \in 1..(k - 1) : text[c].t = "class"

ShortTexts(alphabet) ==
    {t \in UNION {[1..n -> alphabet] : n \in 0..MaxTokens} : WellFormed(t)}

\* a class with more methods than MethodCap
LongTexts(methodTok) ==
    { <<Tok("class", "C", FALSE, FALSE, FALSE, DeclWidth)>> \o [i \in 1..n |-> methodTok] :
        n \in (MethodCap + 1)..(MethodCap + MaxOver) }

InitExtract ==
    /\ kind \in {"ts", "py"}
    /\ content \in
         IF kind = "ts"
         THEN ShortTexts(TsAlphabet)
              \cup LongTexts(Tok("method", "f", FALSE, FALSE, TRUE, DeclWidth))
         ELSE ShortTexts(PyAlphabet)
              \cup LongTexts(Tok("def", "g", FALSE, FALSE, TRUE, DeclWidth))
    /\ probe \in BOOLEAN
    /\ analysis = EmptyAnalysis
    /\ xpc = "input"

AnalyzeTypescript ==
    /\ xpc = "input"
    /\ kind = "ts"
    /\ analysis' = analyze_typescript_file(content, probe)
    /\ xpc' = "done"
    /\ UNCHANGED <<kind, content, probe>>
    /\ UNCHANGED <<emitVars, fileVars, mainVars>>

AnalyzePython ==
    /\ xpc = "input"
    /\ kind = "py"
    /\ analysis' = analyze_python_file(content, probe)
    /\ xpc' = "done"
    /\ UNCHANGED <<kind, content, probe>>
    /\ UNCHANGED <<emitVars, fileVars, mainVars>>

----------------------------------------------------------------------------
(* generate_compact_index: the lines written for one file's analysis *)

\* one output line; the fields a line kind does not have are left empty.  The
\* signature of a function and the byte size on a FILE line are not modelled.
Line(tag, path, name, of, a, b) ==
    [tag |-> tag, path |-> path, name |-> name, of |-> of, a |-> a, b |-> b]

Flag(b) == IF b THEN "1" ELSE "0"

\* CLASS|path|name|is_exported, then its METHOD lines (methods[:10])
class_lines(path, c) ==
    <<Line("CLASS", path, c.name, "", Flag(c.is_exported), "")>>
    \o [j \in 1..Len(Take(c.methods, MethodCap)) |->
            Line("METHOD", path, c.methods[j].name, c.name, Flag(c.methods[j].is_async), "")]

\* (mutant of write_analysis) the functions are written without a cap
write_analysis_funcs_uncapped(path, a) ==
    [i \in 1..Len(Take(a.imports, ImportCap)) |->
        Line("IMPORT", path, a.imports[i].name, "", "", "")]
    \o [i \in 1..Len(Take(a.exports, ExportCap)) |->
        Line("EXPORT", path, a.exports[i].name, "", Flag(a.exports[i].default), "")]
    \o [i \in 1..Len(a.types) |->
        Line("TYPE", path, a.types[i].name, a.types[i].kind, Flag(a.types[i].is_exported), "")]
    \o Flatten([i \in 1..Len(a.classes) |-> class_lines(path, a.classes[i])])
    \o [i \in 1..Len(a.functions) |->
        Line("FUNC", path, a.functions[i].name, "",
             Flag(a.functions[i].is_async), Flag(a.functions[i].is_exported))]

\* the body of "if analysis:"
write_analysis(path, a) ==
    [i \in 1..Len(Take(a.imports, ImportCap)) |->
        Line("IMPORT", path, a.imports[i].name, "", "", "")]
    \o [i \in 1..Len(Take(a.exports, ExportCap)) |->
        Line("EXPORT", path, a.exports[i].name, "", Flag(a.exports[i].default), "")]
    \o [i \in 1..Len(a.types) |->
        Line("TYPE", path, a.types[i].name, a.types[i].kind, Flag(a.types[i].is_exported), "")]
    \o Flatten([i \in 1..Len(a.classes) |-> class_lines(path, a.classes[i])])
    \o [i \in 1..Len(Take(a.functions, FuncCap)) |->
        Line("FUNC", path, a.functions[i].name, "",
             Flag(a.functions[i].is_async), Flag(a.functions[i].is_exported))]

----------------------------------------------------------------------------
(* Serialisation: inputs and action *)

MaxClasses == 2

\* list lengths around a cap
LenChoices(cap) == {0, 1, cap} \cup ((cap + 1)..(cap + MaxOver))

\* list lengths for the lists written without a cap: longer than every cap
TypeLens == {0, FuncCap + MaxOver}

ClassLens == (0..MaxClasses) \cup {FuncCap + MaxOver}

\* entries are named by their place in the list
NamedEntries(n) == [i \in 1..n |-> [name |-> ToString(i), at |-> i]]

FunctionEntries(n) == [i \in 1..n |-> FunctionInfo(ToString(i), i % 2 = 0, i % 3 = 0, i)]

ExportEntries(n) == [i \in 1..n |-> [name |-> ToString(i), default |-> i % 2 = 0, at |-> i]]

TypeEntries(n) ==
    [i \in 1..n |-> TypeInfo(ToString(i), IF i % 2 = 0 THEN "type" ELSE "interface", TRUE, i)]

\* n classes; odd ones hold m1 methods, even ones m2
ClassEntries(n, m1, m2) ==
    [i \in 1..n |->
        ClassInfo(ToString(i), FunctionEntries(IF i % 2 = 1 THEN m1 ELSE m2), FALSE, i)]

InitEmit ==
    /\ \E ni \in LenChoices(ImportCap), ne \in LenChoices(ExportCap),
          nf \in LenChoices(FuncCap), nt \in TypeLens, nc \in ClassLens,
          m1 \in LenChoices(MethodCap), m2 \in LenChoices(MethodCap) :
            rec = FileAnalysis(NamedEntries(ni), ExportEntries(ne), ClassEntries(nc, m1, m2),
                               FunctionEntries(nf), TypeEntries(nt), FALSE)
    /\ lines = <<>>
    /\ epc = "input"

WriteAnalysis ==
    /\ epc = "input"
    /\ lines' = write_analysis(<<"f">>, rec)
    /\ epc' = "done"
    /\ UNCHANGED rec
    /\ UNCHANGED <<extractVars, fileVars, mainVars>>

----------------------------------------------------------------------------
(* Configuration sets of the source *)

EXCLUDE_DIRS ==
    {"node_modules", ".git", ".next", "dist", "build", ".cache", "__pycache__",
     ".pytest_cache", "coverage", ".nyc_output", "venv", "env", ".venv"}

EXCLUDE_FILES ==
    {".DS_Store", "package-lock.json", "npm-debug.log", "yarn-error.log", ".env", ".env.local"}

CODE_EXTENSIONS ==
    {".ts", ".tsx", ".js", ".jsx", ".py", ".java", ".go", ".rs", ".c", ".cpp", ".h", ".hpp"}

\* the entry names of the model, in the order of name.lower()
NameTable ==
    <<".env", "__tests__", "a.py", "a.test.py", "agent-tools",
      "architecture-overview.py", "dist", "PROJECT_MAP.txt">>

\* name.startswith('.'), over the names of the model
StartsWithDot(name) == name \in {".env"}

\* Path(name).suffix, over the names of the model
Suffix(name) ==
    CASE name \in {"a.py", "a.test.py", "architecture-overview.py"} -> ".py"
      [] name = "PROJECT_MAP.txt" -> ".txt"
      [] OTHER -> ""

\* (mutant of should_exclude) the directory names are excluded for files too
should_exclude_any_kind(name, is_dir) ==
    IF is_dir
    THEN IF StartsWithDot(name) THEN TRUE ELSE name \in EXCLUDE_DIRS
    ELSE name \in EXCLUDE_FILES \cup EXCLUDE_DIRS

should_exclude(name, is_dir) ==
    IF is_dir
    THEN IF StartsWithDot(name) THEN TRUE ELSE name \in EXCLUDE_DIRS
    ELSE name \in EXCLUDE_FILES

----------------------------------------------------------------------------
(* check_has_tests and analyze_file *)

\* any(p.exists() for p in patterns): probes holds, for the five candidate paths
\* in order, "yes", "no", or "denied" (stat raises PermissionError: the
\* candidate lies in a directory that may not be searched).  any() stops at the
\* first hit.  The result is "true", "false" or "PermissionError".
RECURSIVE check_has_tests(_)
check_has_tests(probes) ==
    IF probes = <<>> THEN "false"
    ELSE IF Head(probes) = "yes" THEN "true"
    ELSE IF Head(probes) = "denied" THEN "PermissionError"
    ELSE check_has_tests(Tail(probes))

\* open(..., encoding='utf-8', errors='ignore').read(): undecodable bytes are
\* dropped, the rest of the text is kept
decode(bytes) == SelectSeq(bytes, LAMBDA tok : tok.t # "bad")

\* the result of analyze_file: ret is "None", "analysis" or "raise"
Outcome(ret, a, exc) == [ret |-> ret, a |-> a, exc |-> exc]

\* (mutant of analyze_file) strict decoding: an undecodable byte makes read()
\* raise, which the except clause turns into None
analyze_file_strict(ext, openable, bytes, probes) ==
    IF ext \notin CODE_EXTENSIONS THEN Outcome("None", EmptyAnalysis, "none")
    ELSE IF ~openable \/ decode(bytes) # bytes THEN Outcome("None", EmptyAnalysis, "none")
    ELSE LET t == check_has_tests(probes) IN
         IF t = "PermissionError" THEN Outcome("raise", EmptyAnalysis, "PermissionError")
         ELSE IF ext \in {".ts", ".tsx", ".js", ".jsx"}
              THEN Outcome("analysis", analyze_typescript_file(decode(bytes), t = "true"), "none")
         ELSE IF ext = ".py"
              THEN Outcome("analysis", analyze_python_file(decode(bytes), t = "true"), "none")
         ELSE Outcome("analysis",
                      FileAnalysis(<<>>, <<>>, <<>>, <<>>, <<>>, t = "true"), "none")

analyze_file(ext, openable, bytes, probes) ==
    IF ext \notin CODE_EXTENSIONS THEN Outcome("None", EmptyAnalysis, "none")
    ELSE IF ~openable THEN Outcome("None", EmptyAnalysis, "none")
    ELSE LET t == check_has_tests(probes) IN
         IF t = "PermissionError" THEN Outcome("raise", EmptyAnalysis, "PermissionError")
         ELSE IF ext \in {".ts", ".tsx", ".js", ".jsx"}
              THEN Outcome("analysis", analyze_typescript_file(decode(bytes), t = "true"), "none")
         ELSE IF ext = ".py"
              THEN Outcome("analysis", analyze_python_file(decode(bytes), t = "true"), "none")
         ELSE Outcome("analysis",
                      FileAnalysis(<<>>, <<>>, <<>>, <<>>, <<>>, t = "true"), "none")

\* the else-branch of the entry loop of generate_compact_index for one file:
\* stat, analyze, FILE line, analysis lines.  stat_ok is FALSE when
\* entry.stat() raises FileNotFoundError (a dangling symbolic link).
process_file(path, ext, stat_ok, openable, bytes, probes) ==
    IF ~stat_ok THEN [lines |-> <<>>, exc |-> "FileNotFoundError"]
    ELSE LET r == analyze_file(ext, openable, bytes, probes) IN
         IF r.ret = "raise" THEN [lines |-> <<>>, exc |-> r.exc]
         ELSE LET has_tests == IF r.ret = "analysis" /\ r.a.has_tests
                               THEN "true" ELSE "false"
              IN [lines |-> <<Line("FILE", path, "", "", has_tests, "")>>
                            \o (IF r.ret = "analysis" THEN write_analysis(path, r.a) ELSE <<>>),
                  exc |-> "none"]

----------------------------------------------------------------------------
(* Single file: inputs and action *)

Bad == Tok("bad", "", FALSE, FALSE, FALSE, 1)

PySample ==
    << Tok("class", "C", FALSE, FALSE, FALSE, DeclWidth),
       Tok("def", "f", FALSE, FALSE, TRUE, DeclWidth) >>

TsSample ==
    << Tok("import", "./a", FALSE, FALSE, FALSE, DeclWidth),
       Tok("function", "f", TRUE, FALSE, FALSE, DeclWidth) >>

\* the sample with an undecodable byte before each declaration
RECURSIVE WithBadBytes(_)
WithBadBytes(text) ==
    IF text = <<>> THEN <<>> ELSE <<Bad, Head(text)>> \o WithBadBytes(Tail(text))

FileTexts(ext) ==
    LET sample == IF ext = ".ts" THEN TsSample ELSE PySample
    IN {<<>>, <<Bad>>, sample, WithBadBytes(sample)}

\* the two sibling candidates exist or not; the three candidates below
\* __tests__ exist or not, or all raise when __tests__ may not be searched
ProbeChoices ==
    {<<a, b>> \o c : a \in {"yes", "no"}, b \in {"yes", "no"},
                     c \in [1..3 -> {"yes", "no"}] \cup {<<"denied", "denied", "denied">>}}

InitFile ==
    /\ \E ext \in {".ts", ".py", ".go", ".txt"} :
         fentry \in [ext : {ext}, stat_ok : BOOLEAN, openable : BOOLEAN,
                     bytes : FileTexts(ext), probes : ProbeChoices]
    /\ fout = <<>>
    /\ fpc = "input"

ProcessFile ==
    /\ fpc = "input"
    /\ LET r == process_file(<<"f">>, fentry.ext, fentry.stat_ok, fentry.openable,
                             fentry.bytes, fentry.probes)
       IN /\ fout' = r.lines
          /\ fpc' = IF r.exc = "none" THEN "done" ELSE r.exc
    /\ UNCHANGED fentry
    /\ UNCHANGED <<extractVars, emitVars, mainVars>>

----------------------------------------------------------------------------
(* The project tree *)

\* a node below the root (node 0).  st of a directory: "ok", or "denied" (mode
\* 000: it can be neither listed nor searched).  st of a file: "ok",
\* "unreadable" (open raises PermissionError) or "dangling" (a symbolic link to
\* nothing: is_dir() and is_file() are False, stat() raises FileNotFoundError).
Node(parent, name, is_dir, st) ==
    [parent |-> parent, name |-> name, is_dir |-> is_dir, st |-> st]

NameRank(name) == CHOOSE i \in 1..Len(NameTable) : NameTable[i] = name

Children(t, d) == {i \in 1..Len(t) : t[i].parent = d}

RECURSIVE PathOf(_, _)
PathOf(t, n) == IF n = 0 THEN <<>> ELSE Append(PathOf(t, t[n].parent), t[n].name)

\* the sort key (not x.is_dir(), x.name.lower())
SortKey(t, i) == (IF t[i].is_dir THEN 0 ELSE 1) * (Len(NameTable) + 1) + NameRank(t[i].name)

RECURSIVE SortedEntries(_, _)
SortedEntries(t, S) ==
    IF S = {} THEN <<>>
    ELSE LET m == CHOOSE i \in S : \A j \in S : SortKey(t, i) <= SortKey(t, j)
         IN <<m>> \o SortedEntries(t, S \ {m})

\* the bytes of a file, by its name
FileBytes(name) ==
    CASE name = "a.py" -> WithBadBytes(PySample)
      [] name = "a.test.py" -> <<Tok("def", "g", FALSE, FALSE, FALSE, DeclWidth)>>
      [] name = "architecture-overview.py" -> <<Tok("def", "main", FALSE, FALSE, FALSE, DeclWidth)>>
      [] OTHER -> <<>>

\* the file name with ".test" inserted before the suffix, when the model has it
TestName(name) == IF name = "a.py" THEN "a.test.py" ELSE ""

\* Path.exists() of d/name: "yes" or "no"
ExistsIn(t, d, name) ==
    IF \E i \in Children(t, d) : t[i].name = name /\ t[i].st # "dangling"
    THEN "yes" ELSE "no"

\* Path.exists() of d/__tests__/name
ExistsInTests(t, d, name) ==
    LET T == {i \in Children(t, d) : t[i].name = "__tests__" /\ t[i].is_dir}
    IN IF T = {} THEN "no"
       ELSE LET td == CHOOSE i \in T : TRUE
            IN IF t[td].st = "denied" THEN "denied" ELSE ExistsIn(t, td, name)

\* the answers for the five candidates of check_has_tests(file n); no name of
\* the model has ".spec" in it
Probes(t, n) ==
    LET d == t[n].parent
        nm == t[n].name
    IN << ExistsIn(t, d, TestName(nm)), "no",
          ExistsInTests(t, d, nm), ExistsInTests(t, d, TestName(nm)), "no" >>

----------------------------------------------------------------------------
(* generate_compact_index and count_items over the tree *)

RECURSIVE generate_compact_index(_, _)
RECURSIVE walk_entries(_, _)

\* the for-loop over the filtered, sorted entries; stops at the first exception
walk_entries(t, entries) ==
    IF entries = <<>> THEN [lines |-> <<>>, exc |-> "none"]
    ELSE LET e == Head(entries)
             r == IF t[e].is_dir
                  THEN generate_compact_index(t, e)
                  ELSE process_file(PathOf(t, e), Suffix(t[e].name), t[e].st # "dangling",
                                    t[e].st = "ok", FileBytes(t[e].name), Probes(t, e))
         IN IF r.exc # "none" THEN r
            ELSE LET rest == walk_entries(t, Tail(entries))
                 IN [lines |-> r.lines \o rest.lines, exc |-> rest.exc]

\* try: list, sort, filter, loop; except PermissionError: one ERROR line
generate_compact_index(t, d) ==
    IF d # 0 /\ t[d].st = "denied"
    THEN [lines |-> <<Line("ERROR", PathOf(t, d), "", "", "", "")>>, exc |-> "none"]
    ELSE LET entries == SelectSeq(SortedEntries(t, Children(t, d)),
                                  LAMBDA i : ~should_exclude(t[i].name, t[i].is_dir))
             r == walk_entries(t, entries)
         IN IF r.exc = "PermissionError"
            THEN [lines |-> Append(r.lines, Line("ERROR", PathOf(t, d), "", "", "", "")),
                  exc |-> "none"]
            ELSE r

RECURSIVE count_recursive(_, _)
RECURSIVE count_set(_, _)

\* the totals over the entries S of one directory
count_set(t, S) ==
    IF S = {} THEN [files |-> 0, dirs |-> 0]
    ELSE LET e == CHOOSE i \in S : TRUE
             rest == count_set(t, S \ {e})
             sub == count_recursive(t, e)
         IN IF should_exclude(t[e].name, t[e].is_dir) THEN rest
            ELSE IF ~t[e].is_dir /\ t[e].st # "dangling"
                 THEN [files |-> rest.files + 1, dirs |-> rest.dirs]
            ELSE IF t[e].is_dir
                 THEN [files |-> rest.files + sub.files, dirs |-> rest.dirs + 1 + sub.dirs]
            ELSE rest

count_recursive(t, d) ==
    IF d # 0 /\ t[d].st = "denied" THEN [files |-> 0, dirs |-> 0]
    ELSE count_set(t, Children(t, d))

count_items(t) == count_recursive(t, 0)

----------------------------------------------------------------------------
(* main: the tree it runs in, and its steps *)

MaxNodes == 2
MaxFaults == 1

\* the script lives in <project_root>/agent-tools/
BaseTree ==
    << Node(0, "agent-tools", TRUE, "ok"),
       Node(1, "architecture-overview.py", FALSE, "ok") >>

AddNames == {".env", "__tests__", "a.py", "a.test.py", "dist", "PROJECT_MAP.txt"}

Faults(t) == Cardinality({i \in 1..Len(t) : t[i].st # "ok"})

\* one more entry of the project tree.  Entries are added in the order of
\* (parent, name), so that each tree is built in one way only.  The output path
\* <project_root>/PROJECT_MAP.txt, when it exists, is a plain writable file.
AddEntry(parent, name, is_dir, st) ==
    /\ pc = "build"
    /\ Len(tree) < Len(BaseTree) + MaxNodes
    /\ parent = 0 \/ (parent \in 1..Len(tree) /\ tree[parent].is_dir)
    /\ \A i \in Children(tree, parent) : tree[i].name # name
    /\ Len(tree) > Len(BaseTree) =>
         LET last == tree[Len(tree)]
         IN \/ last.parent < parent
            \/ last.parent = parent /\ NameRank(last.name) < NameRank(name)
    /\ st \in (IF is_dir THEN {"ok", "denied"} ELSE {"ok", "unreadable", "dangling"})
    /\ (parent = 0 /\ name = "PROJECT_MAP.txt") => (~is_dir /\ st = "ok")
    /\ st # "ok" => Faults(tree) < MaxFaults
    /\ tree' = Append(tree, Node(parent, name, is_dir, st))
    /\ UNCHANGED <<pc, total_files, total_dirs, out, raised>>
    /\ UNCHANGED <<extractVars, emitVars, fileVars>>

\* total_files, total_dirs = count_items(project_root)
CountItems ==
    /\ pc = "build"
    /\ LET c == count_items(tree)
       IN /\ total_files' = c.files
          /\ total_dirs' = c.dirs
    /\ pc' = "counted"
    /\ UNCHANGED <<tree, out, raised>>
    /\ UNCHANGED <<extractVars, emitVars, fileVars>>

\* with open(output_path, 'w'): the output file exists from here on; the
\* header is written with the totals counted before
OpenOutput ==
    /\ pc = "counted"
    /\ tree' = IF \E i \in Children(tree, 0) : tree[i].name = "PROJECT_MAP.txt"
               THEN tree
               ELSE Append(tree, Node(0, "PROJECT_MAP.txt", FALSE, "ok"))
    /\ pc' = "opened"
    /\ UNCHANGED <<total_files, total_dirs, out, raised>>
    /\ UNCHANGED <<extractVars, emitVars, fileVars>>

\* generate_compact_index(project_root, project_root, f)
GenerateIndex ==
    /\ pc = "opened"
    /\ LET r == generate_compact_index(tree, 0)
       IN /\ out' = r.lines
          /\ raised' = r.exc
    /\ pc' = "done"
    /\ UNCHANGED <<tree, total_files, total_dirs>>
    /\ UNCHANGED <<extractVars, emitVars, fileVars>>

InitMain ==
    /\ tree = BaseTree
    /\ pc = "build"
    /\ total_files = 0
    /\ total_dirs = 0
    /\ out = <<>>
    /\ raised = "none"

----------------------------------------------------------------------------
(* Specifications *)

IdleExtract ==
    /\ kind = "ts"
    /\ content = <<>>
    /\ probe = FALSE
    /\ analysis = EmptyAnalysis
    /\ xpc = "idle"

IdleEmit ==
    /\ rec = EmptyAnalysis
    /\ lines = <<>>
    /\ epc = "idle"

IdleFile ==
    /\ fentry = [ext |-> ".txt", stat_ok |-> TRUE, openable |-> TRUE,
                 bytes |-> <<>>, probes |-> <<>>]
    /\ fout = <<>>
    /\ fpc = "idle"

IdleMain ==
    /\ tree = BaseTree
    /\ pc = "idle"
    /\ total_files = 0
    /\ total_dirs = 0
    /\ out = <<>>
    /\ raised = "none"

InitX == InitExtract /\ IdleEmit /\ IdleFile /\ IdleMain

NextExtract == AnalyzeTypescript \/ AnalyzePython

SpecExtract == InitX /\ [][NextExtract]_vars

InitE == IdleExtract /\ InitEmit /\ IdleFile /\ IdleMain

NextEmit == WriteAnalysis

SpecEmit == InitE /\ [][NextEmit]_vars

InitF == IdleExtract /\ IdleEmit /\ InitFile /\ IdleMain

NextFile == ProcessFile

SpecFile == InitF /\ [][NextFile]_vars

Init == IdleExtract /\ IdleEmit /\ IdleFile /\ InitMain

Next ==
    \/ \E parent \in 0..(Len(BaseTree) + MaxNodes), name \in AddNames, is_dir \in BOOLEAN,
          st \in {"ok", "denied", "unreadable", "dangling"} :
            AddEntry(parent, name, is_dir, st)
    \/ CountItems
    \/ OpenOutput
    \/ GenerateIndex

Spec == Init /\ [][Next]_vars

----------------------------------------------------------------------------
(* Claims about extraction (SpecExtract) *)

\* s is strictly increasing in the match position
IncreasingAt(s) == \A i, j \in 1..Len(s) : i < j => s[i].at < s[j].at

\* token k is a method-like declaration of the language of the text
IsMethodDecl(k) ==
    IF kind = "ts" THEN ts_method_pattern(content[k]) ELSE def_pattern(content[k])

\* the class entry c does not record a method-like declaration of this name
SkippedName(name, c) ==
    IF kind = "ts" THEN name \in {"constructor", c.name} ELSE IsDunderSkipped(name)

\* token k lies wholly within the WindowSize characters after the class header c
InWindow(k, c) ==
    /\ Start(content, k) >= End(content, c.at)
    /\ End(content, k) <= End(content, c.at) + WindowSize

\* the class header in whose body the nested declaration k is written
Owner(k) == CHOOSE c \in 1..(k - 1) :
                /\ content[c].t = "class"
                /\ \A d \in (c + 1)..(k - 1) : content[d].t # "class"

ClassesOf(a) == {a.classes[i] : i \in 1..Len(a.classes)}

MethodEntries(c) == {c.methods[j] : j \in 1..Len(c.methods)}

\* C6 as stated: in every record returned by extraction each class's methods
\* list holds at most 10 entries.
C6_MethodsAtMostCap ==
    xpc = "done" => \A c \in ClassesOf(analysis) : Len(c.methods) <= MethodCap

\* C6 as amended: each class's methods list holds every method match of the
\* class's 2000-character window that is not skipped by name, in window order,
\* however many there are; extraction applies no cap of 10.
C6_MethodsAllOfWindow ==
    xpc = "done" =>
        \A c \in ClassesOf(analysis) :
            /\ {m.at : m \in MethodEntries(c)} =
                   {k \in 1..Len(content) :
                        IsMethodDecl(k) /\ InWindow(k, c) /\ ~SkippedName(content[k].name, c)}
            /\ IncreasingAt(c.methods)
            /\ \A m \in MethodEntries(c) : m.name = content[m.at].name /\ ~m.is_exported

\* C6 witness: a returned class record with more than 10 methods
C6_Witness ==
    /\ xpc = "done"
    /\ \E c \in ClassesOf(analysis) : Len(c.methods) > MethodCap

\* C7 as stated: every list of the record is in first-seen textual order.
C7_TextualOrder ==
    xpc = "done" =>
        /\ IncreasingAt(analysis.imports)
        /\ IncreasingAt(analysis.exports)
        /\ IncreasingAt(analysis.types)
        /\ IncreasingAt(analysis.classes)
        /\ IncreasingAt(analysis.functions)

KindRank(k) == CASE k = "interface" -> 1 [] k = "type" -> 2 [] k = "enum" -> 3

\* s is ordered by the pass that produced the entry (rank[i] for entry i),
\* then by match position
OrderedByPass(s, rank) ==
    \A i, j \in 1..Len(s) :
        i < j => \/ rank[i] < rank[j]
                 \/ rank[i] = rank[j] /\ s[i].at < s[j].at

\* C7 as amended: imports and classes are in textual order; exports, types and
\* functions are in textual order within one pass, and the passes follow one
\* another: named exports before default exports, interfaces before type
\* aliases before enums, function declarations before arrow bindings.
C7_OrderWithinPass ==
    xpc = "done" =>
        /\ IncreasingAt(analysis.imports)
        /\ IncreasingAt(analysis.classes)
        /\ OrderedByPass(analysis.exports,
                         [i \in 1..Len(analysis.exports) |->
                             IF analysis.exports[i].default THEN 2 ELSE 1])
        /\ OrderedByPass(analysis.types,
                         [i \in 1..Len(analysis.types) |-> KindRank(analysis.types[i].kind)])
        /\ OrderedByPass(analysis.functions,
                         [i \in 1..Len(analysis.functions) |->
                             IF content[analysis.functions[i].at].t = "arrow" THEN 2 ELSE 1])

\* C7 witness: a record whose types list holds a later declaration before an
\* earlier one
C7_Witness ==
    /\ xpc = "done"
    /\ \E i, j \in 1..Len(analysis.types) :
           i < j /\ analysis.types[i].at > analysis.types[j].at

\* the method names captured in the record
RecordMethodNames == UNION {{m.name : m \in MethodEntries(c)} : c \in ClassesOf(analysis)}

\* C8: for kind-B input no function of the record has the name of a captured
\* method; a def match is in functions exactly when its name is not the name of
\* a captured method of any class; the functions are in textual order.
C8_FunctionsExcludeMethodNames ==
    (xpc = "done" /\ kind = "py") =>
        /\ \A i \in 1..Len(analysis.functions) :
               analysis.functions[i].name \notin RecordMethodNames
        /\ {f.at : f \in {analysis.functions[i] : i \in 1..Len(analysis.functions)}} =
               {k \in 1..Len(content) :
                    content[k].t = "def" /\ content[k].name \notin RecordMethodNames}
        /\ IncreasingAt(analysis.functions)
        /\ \A i \in 1..Len(analysis.functions) :
               analysis.functions[i].name = content[analysis.functions[i].at].name

\* C8 witness: a top-level def that no class captured is dropped because a
\* method of a class has its name
C8_Witness ==
    /\ xpc = "done"
    /\ kind = "py"
    /\ \E k \in 1..Len(content) :
           /\ content[k].t = "def"
           /\ ~content[k].nested
           /\ \A c \in ClassesOf(analysis) : \A m \in MethodEntries(c) : m.at # k
           /\ content[k].name \in RecordMethodNames
           /\ \A i \in 1..Len(analysis.functions) : analysis.functions[i].at # k

\* C9 as stated: no class records a method written in the body of a later class.
C9_OnlyOwnMethods ==
    xpc = "done" =>
        \A c \in ClassesOf(analysis) : \A m \in MethodEntries(c) :
            ~(content[m.at].nested /\ Owner(m.at) > c.at)

\* C9 as amended: a method written in the body of a later class is recorded in
\* an earlier class's methods exactly when its declaration lies wholly within
\* the 2000 characters after the earlier class header and its name is not one
\* the earlier class skips.
C9_WindowDecides ==
    xpc = "done" =>
        \A c \in ClassesOf(analysis) :
            \A k \in 1..Len(content) :
                (IsMethodDecl(k) /\ content[k].nested /\ Owner(k) > c.at) =>
                    ((\E m \in MethodEntries(c) : m.at = k)
                        <=> (InWindow(k, c) /\ ~SkippedName(content[k].name, c)))

\* C9 witness: an earlier class records a method of a later class
C9_Witness ==
    /\ xpc = "done"
    /\ \E c \in ClassesOf(analysis) : \E m \in MethodEntries(c) :
           content[m.at].nested /\ Owner(m.at) > c.at

----------------------------------------------------------------------------
(* Claims about serialisation (SpecEmit) *)

\* the names on the lines of one kind, in the order written
NamesOf(ls, tag) ==
    LET sel == SelectSeq(ls, LAMBDA l : l.tag = tag)
    IN [i \in 1..Len(sel) |-> sel[i].name]

\* the method names on the METHOD lines of class cls, in the order written
MethodNamesOf(ls, cls) ==
    LET sel == SelectSeq(ls, LAMBDA l : l.tag = "METHOD" /\ l.of = cls)
    IN [i \in 1..Len(sel) |-> sel[i].name]

\* the names of the first n entries of a list
FirstNames(s, n) == [i \in 1..Min(n, Len(s)) |-> s[i].name]

\* C1: the lines of a file hold at most 5 IMPORT, 10 EXPORT and 15 FUNC lines
\* and at most 10 METHOD lines per CLASS line, each group the first entries of
\* its list in list order; TYPE and CLASS lines are one per entry, uncapped.
C1_LineCaps ==
    epc = "done" =>
        /\ NamesOf(lines, "IMPORT") = FirstNames(rec.imports, 5)
        /\ NamesOf(lines, "EXPORT") = FirstNames(rec.exports, 10)
        /\ NamesOf(lines, "FUNC") = FirstNames(rec.functions, 15)
        /\ NamesOf(lines, "TYPE") = FirstNames(rec.types, Len(rec.types))
        /\ NamesOf(lines, "CLASS") = FirstNames(rec.classes, Len(rec.classes))
        /\ \A i \in 1..Len(rec.classes) :
               MethodNamesOf(lines, rec.classes[i].name) = FirstNames(rec.classes[i].methods, 10)
        /\ Len(NamesOf(lines, "IMPORT")) <= 5
        /\ Len(NamesOf(lines, "EXPORT")) <= 10
        /\ Len(NamesOf(lines, "FUNC")) <= 15
        /\ Len(lines) = Len(NamesOf(lines, "IMPORT")) + Len(NamesOf(lines, "EXPORT"))
                        + Len(NamesOf(lines, "FUNC")) + Len(NamesOf(lines, "TYPE"))
                        + Len(NamesOf(lines, "CLASS")) + Len(NamesOf(lines, "METHOD"))

\* C1 witness: every capped list is longer than its cap, and there are more
\* types and classes than any cap
C1_Witness ==
    /\ epc = "done"
    /\ Len(rec.imports) > 5
    /\ Len(rec.exports) > 10
    /\ Len(rec.functions) > 15
    /\ Len(rec.types) > 15
    /\ Len(rec.classes) > 15
    /\ Len(rec.classes[1].methods) > 10
    /\ Len(NamesOf(lines, "FUNC")) = 15
    /\ Len(NamesOf(lines, "TYPE")) = Len(rec.types)

----------------------------------------------------------------------------
(* Claims about one file (SpecFile) *)

HasBadBytes(bytes) == \E i \in 1..Len(bytes) : bytes[i].t = "bad"

HasText(bytes) == \E i \in 1..Len(bytes) : bytes[i].t # "bad"

ProbeSays(probes, v) == \E i \in 1..Len(probes) : probes[i] = v

FileLineOnly(has_tests) == <<Line("FILE", <<"f">>, "", "", has_tests, "")>>

\* C4 as stated: a recognized-code file that cannot be read, or that holds
\* undecodable bytes, gets exactly one FILE line with has_tests=false and no
\* structural line, and nothing is raised.  (Stated for files whose test
\* candidates can all be probed.)
C4_UnreadableOrUndecodable ==
    (/\ fpc # "input" /\ fpc # "idle"
     /\ fentry.ext \in CODE_EXTENSIONS
     /\ fentry.stat_ok
     /\ ~ProbeSays(fentry.probes, "denied")
     /\ (~fentry.openable \/ HasBadBytes(fentry.bytes)))
    => (fpc = "done" /\ fout = FileLineOnly("false"))

\* C4 as amended: a recognized-code file that cannot be opened or read gets
\* exactly one FILE line with has_tests=false and no structural line, and
\* nothing is raised.  Undecodable bytes do not make a file unreadable: they are
\* dropped, the rest of the text is analysed, and the file gets its structural
\* lines and the has_tests flag of its test candidates.
C4_UnreadableYieldsFileLineOnly ==
    (/\ fpc # "input" /\ fpc # "idle"
     /\ fentry.ext \in CODE_EXTENSIONS
     /\ fentry.stat_ok)
    => /\ ~fentry.openable => (fpc = "done" /\ fout = FileLineOnly("false"))
       /\ (fentry.openable /\ ~ProbeSays(fentry.probes, "denied")) =>
             /\ fpc = "done"
             /\ Len(fout) >= 1
             /\ Head(fout) = Head(FileLineOnly(IF ProbeSays(fentry.probes, "yes")
                                               THEN "true" ELSE "false"))
             /\ \A i \in 2..Len(fout) : fout[i].tag # "FILE"
             /\ Len(fout) > 1 <=> (fentry.ext \in {".ts", ".py"} /\ HasText(fentry.bytes))

\* C4 witness: an unreadable code file with text in it and a test file beside
\* it has been processed
C4_Witness ==
    /\ fpc = "done"
    /\ fentry.ext \in CODE_EXTENSIONS
    /\ fentry.stat_ok
    /\ ~fentry.openable
    /\ HasText(fentry.bytes)
    /\ fentry.probes[1] = "yes"
    /\ fout = FileLineOnly("false")

----------------------------------------------------------------------------
(* Claims about main (Spec) *)

RECURSIVE Ancestors(_, _)
\* the directories strictly between the root and node n
Ancestors(t, n) ==
    IF t[n].parent = 0 THEN {} ELSE {t[n].parent} \cup Ancestors(t, t[n].parent)

Files(t) == {n \in 1..Len(t) : ~t[n].is_dir}

\* a hidden (dot-prefixed) or excluded directory name
ExcludedDirName(name) == StartsWithDot(name) \/ name \in EXCLUDE_DIRS

\* the file's own name is not excluded and no ancestor directory is hidden or
\* excluded
Visible(t, n) ==
    /\ t[n].name \notin EXCLUDE_FILES
    /\ \A a \in Ancestors(t, n) : ~ExcludedDirName(t[a].name)

\* the number of lines of kind tag written for path p
CountLines(tag, p) == Cardinality({i \in 1..Len(out) : out[i].tag = tag /\ out[i].path = p})

FileLineCount == Cardinality({i \in 1..Len(out) : out[i].tag = "FILE"})

\* C2: when every directory can be listed and every file's metadata read,
\* exactly one FILE line is written for each file whose name is not excluded
\* and which has no hidden or excluded ancestor directory, whatever its
\* extension, and no FILE line is written for any other file.
C2_FileLinePerVisibleFile ==
    (/\ pc = "done"
     /\ \A n \in 1..Len(tree) : tree[n].st \in {"ok", "unreadable"})
    => /\ raised = "none"
       /\ \A n \in Files(tree) :
              CountLines("FILE", PathOf(tree, n)) = (IF Visible(tree, n) THEN 1 ELSE 0)
       /\ \A i \in 1..Len(out) :
              out[i].tag = "FILE" => \E n \in Files(tree) : PathOf(tree, n) = out[i].path

\* C2 witness: a run over a tree with a file below a hidden or excluded
\* directory, which got no line, and a file that is no code file, which got one
C2_Witness ==
    /\ pc = "done"
    /\ \A n \in 1..Len(tree) : tree[n].st \in {"ok", "unreadable"}
    /\ \E n \in Files(tree) :
           /\ \E a \in Ancestors(tree, n) : ExcludedDirName(tree[a].name)
           /\ CountLines("FILE", PathOf(tree, n)) = 0
    /\ \E n \in Files(tree) :
           /\ Suffix(tree[n].name) \notin CODE_EXTENSIONS
           /\ CountLines("FILE", PathOf(tree, n)) = 1

\* the traversal comes to directory d: no ancestor of d, nor d, is excluded,
\* and no ancestor of d is denied
Met(t, d) ==
    /\ ~ExcludedDirName(t[d].name)
    /\ \A a \in Ancestors(t, d) : ~ExcludedDirName(t[a].name) /\ t[a].st # "denied"

\* path p lies strictly below path q
Below(p, q) == Len(p) > Len(q) /\ SubSeq(p, 1, Len(q)) = q

\* C3 as stated: a directory that raises a permission error gets exactly one
\* ERROR line in place of its subtree, and every other non-excluded file of the
\* tree still gets its FILE line.  (Stated for trees in which the permission
\* errors of directories are the only failures.)
C3_DeniedDirOneErrorLine ==
    (/\ pc = "done"
     /\ \A n \in 1..Len(tree) : tree[n].st \in {"ok", "denied"})
    => \A d \in 1..Len(tree) :
           (tree[d].is_dir /\ tree[d].st = "denied" /\ Met(tree, d)) =>
               /\ CountLines("ERROR", PathOf(tree, d)) = 1
               /\ \A i \in 1..Len(out) : ~Below(out[i].path, PathOf(tree, d))
               /\ \A n \in Files(tree) :
                      (/\ Visible(tree, n)
                       /\ \A a \in Ancestors(tree, n) : tree[a].st # "denied")
                      => CountLines("FILE", PathOf(tree, n)) = 1

\* C5 as stated: whatever single file or directory operation fails,
\* generate_compact_index returns normally, without raising.
C5_NeverRaises == pc = "done" => raised = "none"

\* C10 as stated: the Total Files of the header is the number of FILE lines.
C10_HeaderCountsFileLines == pc = "done" => total_files = FileLineCount

====
